---- MODULE Spec2Model ----
(***************************************************************************)
(* Distance-vector (DVrouter.py) and link-state (LSrouter.py) routers.     *)
(*                                                                         *)
(* Every handler is a pure operator from a router record and the handler's *)
(* arguments to [st |-> the router afterwards, out |-> the sends it made,  *)
(* in order]. The specifications below drive one router with arbitrary     *)
(* events (Spec), or a network of routers joined by FIFO links.            *)
(*                                                                         *)
(* Addresses are the integers 1..: they stand for the simulator's address  *)
(* strings in their comparison order, which heapq uses to order its        *)
(* (cost, address) pairs.                                                  *)
(***************************************************************************)
EXTENDS Integers, Sequences, FiniteSets, TLC

VARIABLES
    proto,      \* "DV" or "LS": the class of the routers under test
    rt,         \* router address -> router object (its fields)
    out,        \* the sends of the last handler run, in order (single router)
    ev,         \* [n |-> events handed to the router so far, op |-> the last one] (single router)
    chan,       \* <<from, to>> -> FIFO of packets in flight (network)
    env         \* the environment's bookkeeping (network)

vars == <<proto, rt, out, ev, chan, env>>

(***************************************************************************)
(* Bounds of the model                                                     *)
(***************************************************************************)
MaxCost == 1        \* link costs of the single router: 0..MaxCost
MaxTime == 2        \* time_ms values handed to handle_time: 0..MaxTime
MaxSeq == 2         \* sequence numbers in received LSPs: 1..MaxSeq
HeartbeatTime == 2  \* the heartbeat_time the routers are constructed with
MaxEvents == 4      \* events handed to the single router in one run
MaxBeats == 1       \* heartbeats of each router of a network in one run
MaxChanges == 2     \* link changes the simulator makes on a network of LS routers
MaxDist == 6        \* deliveries stop once a dv cost of a network router exceeds this

Self == 1                  \* the address of the single router
Addrs == {1, 2, 3}         \* addresses that occur as endpoints and in packets
Ports == {1, 2}            \* ports of the single router
NoPort == 0                \* a port on which no link was ever added

\* F of the value of v. TLC evaluates an operator's argument anew at each use
\* when it evaluates ENABLED; a bound variable holds a value.
With(v, F(_)) == CHOOSE r \in {F(x) : x \in {v}} : TRUE

(***************************************************************************)
(* Python dicts                                                            *)
(***************************************************************************)
\* A dict whose iteration order the code depends on is a sequence of
\* <<key, value>> pairs in insertion order.
Keys(d) == {d[i][1] : i \in 1..Len(d)}

Has(d, k) == \E i \in 1..Len(d) : d[i][1] = k

Idx(d, k) == CHOOSE i \in 1..Len(d) : d[i][1] = k

Get(d, k) == d[Idx(d, k)][2]

\* d[k] = v: an existing key keeps its position, a new key goes last
Put(d, k, v) ==
    IF Has(d, k) THEN [d EXCEPT ![Idx(d, k)] = <<k, v>>]
    ELSE Append(d, <<k, v>>)

\* d.pop(k, None) / del d[k]
Pop(d, k) == SelectSeq(d, LAMBDA e : e[1] # k)

\* A dict whose order the code never depends on is a function.
EmptyMap == [x \in {} |-> 0]

MapPut(f, k, v) == [x \in (DOMAIN f) \cup {k} |-> IF x = k THEN v ELSE f[x]]

(***************************************************************************)
(* Packets                                                                 *)
(***************************************************************************)
TRACEROUTE == "TRACEROUTE"

ROUTING == "ROUTING"

Packet(kind, src, dst, content) ==
    [kind |-> kind, src_addr |-> src, dst_addr |-> dst, content |-> content]

is_traceroute(p) == p.kind = TRACEROUTE

Send(port, pkt) == [port |-> port, pkt |-> pkt]

(***************************************************************************)
(* DVrouter                                                                *)
\* A content, or a part of one, that is no dict (a str, a number, None) is the
\* value NoDict: no address is 0, so no vector and no links map has this key.
\* Such an object has neither copy() nor items().
NoDict == [a \in {0} |-> 0]
is_dict(value) == 0 \notin DOMAIN value

\* A handler left by an exception it does not catch: the state as the
\* statements before the raise left it, the packets sent before it.
Raise(st, sent, exception) == [st |-> st, out |-> sent, raised |-> exception]
Raised(res) == "raised" \in DOMAIN res

(***************************************************************************)
DV_init(addr, heartbeat_time) ==
    [addr |-> addr,
     heartbeat_time |-> heartbeat_time,
     last_time |-> 0,
     neighbors |-> <<>>,
     dv |-> MapPut(EmptyMap, addr, 0),
     dv_from_neighbors |-> <<>>,
     forwarding_table |-> EmptyMap]

\* for port, (nbr_addr, _) in self.neighbors.items(): send(port, Packet(dv.copy()))
send_dv_to_neighbors(st) ==
    [i \in 1..Len(st.neighbors) |->
        Send(st.neighbors[i][1],
             Packet(ROUTING, st.addr, st.neighbors[i][2][1], st.dv))]

\* The first loop of update_forwarding_table, from the i-th neighbor on;
\* acc is [dv |-> new_dv, ft |-> new_ft].
RECURSIVE DirectNeighbors(_, _, _)
DirectNeighbors(nbrs, i, acc) ==
    IF i > Len(nbrs) THEN acc
    ELSE LET port == nbrs[i][1]
             nbr  == nbrs[i][2][1]
             cost == nbrs[i][2][2]
         IN With(IF nbr \notin DOMAIN acc.dv \/ cost < acc.dv[nbr]
                 THEN [dv |-> MapPut(acc.dv, nbr, cost),
                       ft |-> MapPut(acc.ft, nbr, port)]
                 ELSE acc,
                 LAMBDA next : DirectNeighbors(nbrs, i + 1, next))

\* next((p for p, (addr, _) in neighbors.items() if addr == nbr), None)
FirstPortTo(nbrs, nbr) ==
    LET hits == {i \in 1..Len(nbrs) : nbrs[i][2][1] = nbr}
    IN IF hits = {} THEN NoPort
       ELSE nbrs[CHOOSE i \in hits : \A j \in hits : i <= j][1]

\* Mutant: a neighbor's vector only adds destinations; a cheaper path to a
\* known destination is not taken.
relax_vector_new_destinations_only(acc, self, their_dv, cost_to_nbr, out_port) ==
    With({d \in (DOMAIN their_dv) \ {self} : d \notin DOMAIN acc.dv},
         LAMBDA better :
             [dv |-> [x \in (DOMAIN acc.dv) \cup better |->
                         IF x \in better THEN cost_to_nbr + their_dv[x] ELSE acc.dv[x]],
              ft |-> [x \in (DOMAIN acc.ft) \cup better |->
                         IF x \in better THEN out_port ELSE acc.ft[x]]])

\* Mutant: the comparison with the cost known so far is lost; every entry of a
\* neighbor's vector replaces the route.
relax_vector_without_comparison(acc, self, their_dv, cost_to_nbr, out_port) ==
    With((DOMAIN their_dv) \ {self},
         LAMBDA better :
             [dv |-> [x \in (DOMAIN acc.dv) \cup better |->
                         IF x \in better THEN cost_to_nbr + their_dv[x] ELSE acc.dv[x]],
              ft |-> [x \in (DOMAIN acc.ft) \cup better |->
                         IF x \in better THEN out_port ELSE acc.ft[x]]])

\* for dest, c in their_dv.items(): the relaxations of one neighbor's vector.
\* Each dest occurs once, so the order within the vector does not matter.
RelaxVector(acc, self, their_dv, cost_to_nbr, out_port) ==
    With({d \in (DOMAIN their_dv) \ {self} :
              d \notin DOMAIN acc.dv \/ cost_to_nbr + their_dv[d] < acc.dv[d]},
         LAMBDA better :
             [dv |-> [x \in (DOMAIN acc.dv) \cup better |->
                         IF x \in better THEN cost_to_nbr + their_dv[x] ELSE acc.dv[x]],
              ft |-> [x \in (DOMAIN acc.ft) \cup better |->
                         IF x \in better THEN out_port ELSE acc.ft[x]]])

\* The second loop of update_forwarding_table, from the i-th stored vector on.
RECURSIVE ViaNeighbors(_, _, _, _, _)
ViaNeighbors(nbrs, self, dvs, i, acc) ==
    IF i > Len(dvs) THEN acc
    ELSE LET nbr      == dvs[i][1]
             their_dv == dvs[i][2]
             out_port == FirstPortTo(nbrs, nbr)
         IN With(IF out_port = NoPort THEN acc
                 ELSE RelaxVector(acc, self, their_dv,
                                  Get(nbrs, out_port)[2], out_port),
                 LAMBDA next : ViaNeighbors(nbrs, self, dvs, i + 1, next))

\* Mutant: the recomputation forgets to seed new_dv with {self.addr: 0}.
update_forwarding_table_unseeded(st) ==
    LET start == [dv |-> EmptyMap, ft |-> EmptyMap]
    IN With(DirectNeighbors(st.neighbors, 1, start), LAMBDA direct :
       With(ViaNeighbors(st.neighbors, st.addr, st.dv_from_neighbors, 1, direct), LAMBDA final :
           [st EXCEPT !.dv = final.dv, !.forwarding_table = final.ft]))

DV_update_forwarding_table(st) ==
    LET start == [dv |-> MapPut(EmptyMap, st.addr, 0), ft |-> EmptyMap]
    IN With(DirectNeighbors(st.neighbors, 1, start), LAMBDA direct :
       With(ViaNeighbors(st.neighbors, st.addr, st.dv_from_neighbors, 1, direct), LAMBDA final :
           [st EXCEPT !.dv = final.dv, !.forwarding_table = final.ft]))

DV_handle_new_link(st, port, endpoint, cost) ==
    With([st EXCEPT !.neighbors = Put(st.neighbors, port, <<endpoint, cost>>),
                    !.dv_from_neighbors = Put(st.dv_from_neighbors, endpoint, EmptyMap)],
         LAMBDA s1 :
    With(IF endpoint \notin DOMAIN s1.dv \/ cost < s1.dv[endpoint]
         THEN [s1 EXCEPT !.dv = MapPut(s1.dv, endpoint, cost),
                         !.forwarding_table = MapPut(s1.forwarding_table, endpoint, port)]
         ELSE s1,
         LAMBDA s2 : [st |-> s2, out |-> send_dv_to_neighbors(s2)]))

\* Mutant: the link is removed without recomputing dv and the forwarding table.
handle_remove_link_no_recompute(st, port) ==
    IF ~Has(st.neighbors, port) THEN [st |-> st, out |-> <<>>]
    ELSE LET neighbor_addr == Get(st.neighbors, port)[1]
             s1 == [st EXCEPT !.neighbors = Pop(st.neighbors, port),
                              !.dv_from_neighbors = Pop(st.dv_from_neighbors, neighbor_addr)]
         IN [st |-> s1, out |-> send_dv_to_neighbors(s1)]

DV_handle_remove_link(st, port) ==
    IF ~Has(st.neighbors, port) THEN [st |-> st, out |-> <<>>]
    ELSE LET neighbor_addr == Get(st.neighbors, port)[1]
             s1 == [st EXCEPT !.neighbors = Pop(st.neighbors, port),
                              !.dv_from_neighbors = Pop(st.dv_from_neighbors, neighbor_addr)]
         IN With(DV_update_forwarding_table(s1),
                 LAMBDA s2 : [st |-> s2, out |-> send_dv_to_neighbors(s2)])

DV_handle_time(st, time_ms) ==
    IF time_ms - st.last_time >= st.heartbeat_time
    THEN LET s1 == [st EXCEPT !.last_time = time_ms]
         IN [st |-> s1, out |-> send_dv_to_neighbors(s1)]
    ELSE [st |-> st, out |-> <<>>]

\* Mutant: a data packet without a route goes back out on the port it came in.
handle_packet_returns_unroutable(st, port, packet) ==
    IF is_traceroute(packet)
    THEN [st |-> st,
          out |-> IF packet.dst_addr \in DOMAIN st.forwarding_table
                  THEN <<Send(st.forwarding_table[packet.dst_addr], packet)>>
                  ELSE <<Send(port, packet)>>]
    ELSE [st |-> st, out |-> <<>>]

\* Mutant: every received vector is taken as new (the comparison with the
\* stored vector is lost).
handle_packet_always_new(st, port, packet) ==
    IF is_traceroute(packet)
    THEN [st |-> st,
          out |-> IF packet.dst_addr \in DOMAIN st.forwarding_table
                  THEN <<Send(st.forwarding_table[packet.dst_addr], packet)>>
                  ELSE <<>>]
    ELSE IF ~is_dict(packet.content)
         THEN Raise(st, <<>>, "AttributeError")
         ELSE LET s1 == [st EXCEPT !.dv_from_neighbors =
                                  Put(st.dv_from_neighbors, packet.src_addr, packet.content)]
              IN With(DV_update_forwarding_table(s1),
                      LAMBDA s2 : [st |-> s2, out |-> send_dv_to_neighbors(s2)])

DV_handle_packet(st, port, packet) ==
    IF is_traceroute(packet)
    THEN [st |-> st,
          out |-> IF packet.dst_addr \in DOMAIN st.forwarding_table
                  THEN <<Send(st.forwarding_table[packet.dst_addr], packet)>>
                  ELSE <<>>]
    ELSE LET neighbor == packet.src_addr
             their_dv == packet.content
         IN IF ~Has(st.dv_from_neighbors, neighbor)
               \/ Get(st.dv_from_neighbors, neighbor) # their_dv
            THEN IF ~is_dict(their_dv)
                 THEN Raise(st, <<>>, "AttributeError")   \* their_dv.copy()
                 ELSE LET s1 == [st EXCEPT !.dv_from_neighbors =
                                          Put(st.dv_from_neighbors, neighbor, their_dv)]
                      IN With(DV_update_forwarding_table(s1),
                              LAMBDA s2 : [st |-> s2, out |-> send_dv_to_neighbors(s2)])
            ELSE [st |-> st, out |-> <<>>]

(***************************************************************************)
(* LSrouter                                                                *)
(***************************************************************************)
None == 0           \* Python's None where an address or an lsdb entry is expected

Diverges == 0 - 1   \* the next-hop walk of run_dijkstra does not end

\* json.dumps of a tuple writes a JSON array (a dict inside it an object, whose
\* keys are the address strings); json.loads reads the array back as a list.
\* Content that is no JSON text at all is [tag |-> "garbage"].
json_dumps(value) == [tag |-> "json", val |-> value]

\* json.loads followed by the unpacking into (origin, seq, links): ok is FALSE
\* where the code takes its except branch.
json_loads(content) ==
    IF content.tag = "json" /\ Len(content.val) = 3
    THEN [ok |-> TRUE, origin |-> content.val[1], seq |-> content.val[2],
          links |-> content.val[3]]
    ELSE [ok |-> FALSE]

LS_init(addr, heartbeat_time) ==
    [addr |-> addr,
     heartbeat_time |-> heartbeat_time,
     last_time |-> 0,
     lsdb |-> EmptyMap,
     neighbors |-> <<>>,
     forwarding_table |-> EmptyMap,
     seq_num |-> 0]

\* {nbr: cost for (_, (nbr, cost)) in self.neighbors.items()}: of several ports
\* to one neighbor the last one in iteration order leaves its cost.
LinksOf(nbrs) ==
    [a \in {nbrs[i][2][1] : i \in 1..Len(nbrs)} |->
        LET hits == {i \in 1..Len(nbrs) : nbrs[i][2][1] = a}
        IN nbrs[CHOOSE i \in hits : \A j \in hits : j <= i][2][2]]

\* heapq.heappop: the least (cost, address) pair
HeapMin(heap) ==
    CHOOSE e \in heap :
        \A f \in heap : e[1] < f[1] \/ (e[1] = f[1] /\ e[2] <= f[2])

\* Mutant: the search keeps the first cost it finds for a vertex (the
\* relaxation new_cost < dist[v] is lost).
RECURSIVE dijkstra_without_relaxation(_, _, _, _, _)
dijkstra_without_relaxation(graph, heap, dist, prev, visited) ==
    IF heap = {} THEN [dist |-> dist, prev |-> prev]
    ELSE LET top  == HeapMin(heap)
             d    == top[1]
             u    == top[2]
             rest == heap \ {top}
         IN IF u \in visited
            THEN With(rest, LAMBDA n :
                     dijkstra_without_relaxation(graph, n, dist, prev, visited))
            ELSE LET edges == IF u \in DOMAIN graph THEN graph[u] ELSE EmptyMap
                 IN With({v \in DOMAIN edges : v \notin DOMAIN dist},
                         LAMBDA better :
                    With([heap |-> rest \cup {<<d + edges[v], v>> : v \in better},
                          dist |-> [x \in (DOMAIN dist) \cup better |->
                                       IF x \in better THEN d + edges[x] ELSE dist[x]],
                          prev |-> [x \in (DOMAIN prev) \cup better |->
                                       IF x \in better THEN u ELSE prev[x]]],
                         LAMBDA n :
                             dijkstra_without_relaxation(graph, n.heap, n.dist, n.prev,
                                                         visited \cup {u})))

\* Mutant: a vertex is relaxed on an equal cost as well (<= for <).
RECURSIVE dijkstra_relaxing_on_ties(_, _, _, _, _)
dijkstra_relaxing_on_ties(graph, heap, dist, prev, visited) ==
    IF heap = {} THEN [dist |-> dist, prev |-> prev]
    ELSE LET top  == HeapMin(heap)
             d    == top[1]
             u    == top[2]
             rest == heap \ {top}
         IN IF u \in visited
            THEN With(rest, LAMBDA n :
                     dijkstra_relaxing_on_ties(graph, n, dist, prev, visited))
            ELSE LET edges == IF u \in DOMAIN graph THEN graph[u] ELSE EmptyMap
                 IN With({v \in DOMAIN edges :
                             v \notin DOMAIN dist \/ d + edges[v] <= dist[v]},
                         LAMBDA better :
                    With([heap |-> rest \cup {<<d + edges[v], v>> : v \in better},
                          dist |-> [x \in (DOMAIN dist) \cup better |->
                                       IF x \in better THEN d + edges[x] ELSE dist[x]],
                          prev |-> [x \in (DOMAIN prev) \cup better |->
                                       IF x \in better THEN u ELSE prev[x]]],
                         LAMBDA n :
                             dijkstra_relaxing_on_ties(graph, n.heap, n.dist, n.prev,
                                                       visited \cup {u})))

\* The while loop of run_dijkstra. No pair is pushed twice (a vertex is pushed
\* again only with a smaller cost), so the heap is a set.
RECURSIVE DijkstraLoop(_, _, _, _, _)
DijkstraLoop(graph, heap, dist, prev, visited) ==
    IF heap = {} THEN [dist |-> dist, prev |-> prev]
    ELSE LET top  == HeapMin(heap)
             d    == top[1]
             u    == top[2]
             rest == heap \ {top}
         IN IF u \in visited
            THEN With(rest, LAMBDA n : DijkstraLoop(graph, n, dist, prev, visited))
            ELSE LET edges == IF u \in DOMAIN graph THEN graph[u] ELSE EmptyMap
                 IN With({v \in DOMAIN edges :
                             v \notin DOMAIN dist \/ d + edges[v] < dist[v]},
                         LAMBDA better :
                    With([heap |-> rest \cup {<<d + edges[v], v>> : v \in better},
                          dist |-> [x \in (DOMAIN dist) \cup better |->
                                       IF x \in better THEN d + edges[x] ELSE dist[x]],
                          prev |-> [x \in (DOMAIN prev) \cup better |->
                                       IF x \in better THEN u ELSE prev[x]]],
                         LAMBDA n :
                             DijkstraLoop(graph, n.heap, n.dist, n.prev, visited \cup {u})))

PrevGet(prev, x) == IF x \in DOMAIN prev THEN prev[x] ELSE None

\* while prev.get(next_hop) != self.addr: ...; a walk longer than prev has keys
\* is in a cycle and never ends.
RECURSIVE NextHop(_, _, _, _)
NextHop(prev, self, next_hop, fuel) ==
    IF PrevGet(prev, next_hop) = self THEN next_hop
    ELSE IF PrevGet(prev, next_hop) = None THEN None
    ELSE IF fuel = 0 THEN Diverges
    ELSE With(PrevGet(prev, next_hop), LAMBDA n : NextHop(prev, self, n, fuel - 1))

run_dijkstra(st) ==
    With([r \in DOMAIN st.lsdb |-> st.lsdb[r][2]], LAMBDA graph :
    With(DijkstraLoop(graph, {<<0, st.addr>>}, MapPut(EmptyMap, st.addr, 0), EmptyMap, {}),
         LAMBDA sp :
    LET hop(dest) == NextHop(sp.prev, st.addr, dest, Cardinality(DOMAIN sp.prev))
        routed == {dest \in (DOMAIN sp.dist) \ {st.addr} :
                      /\ hop(dest) \notin {None, Diverges}
                      /\ FirstPortTo(st.neighbors, hop(dest)) # NoPort}
    IN [st EXCEPT !.forwarding_table =
           [dest \in routed |->
               <<FirstPortTo(st.neighbors, hop(dest)), sp.dist[dest]>>]]))

advertise_lsp(st) ==
    LET links == LinksOf(st.neighbors)
        s1    == [st EXCEPT !.lsdb = MapPut(st.lsdb, st.addr, <<st.seq_num, links>>)]
        content_str == json_dumps(<<st.addr, st.seq_num, links>>)
    IN [st  |-> run_dijkstra(s1),
        out |-> [i \in 1..Len(st.neighbors) |->
                    Send(st.neighbors[i][1],
                         Packet(ROUTING, st.addr, st.neighbors[i][2][1], content_str))]]

LS_handle_new_link(st, port, endpoint, cost) ==
    advertise_lsp([st EXCEPT !.neighbors = Put(st.neighbors, port, <<endpoint, cost>>),
                             !.seq_num = st.seq_num + 1])

\* Mutant: the port is not looked up; every removal advertises.
handle_remove_link_unguarded(st, port) ==
    advertise_lsp([st EXCEPT !.neighbors = Pop(st.neighbors, port),
                             !.seq_num = st.seq_num + 1])

LS_handle_remove_link(st, port) ==
    IF Has(st.neighbors, port)
    THEN advertise_lsp([st EXCEPT !.neighbors = Pop(st.neighbors, port),
                                  !.seq_num = st.seq_num + 1])
    ELSE [st |-> st, out |-> <<>>]

LS_handle_time(st, time_ms) ==
    IF time_ms - st.last_time >= st.heartbeat_time
    THEN advertise_lsp([st EXCEPT !.last_time = time_ms, !.seq_num = st.seq_num + 1])
    ELSE [st |-> st, out |-> <<>>]

\* for p, (nbr, _) in self.neighbors.items(): if p != port: send(p, ...)
Flood(st, port, lsp) ==
    LET others == SelectSeq(st.neighbors, LAMBDA e : e[1] # port)
    IN [i \in 1..Len(others) |->
           Send(others[i][1],
                Packet(ROUTING, st.addr, others[i][2][1], json_dumps(lsp)))]

\* Mutant: an accepted LSP is also sent back on the port it arrived on.
handle_packet_floods_back(st, port, packet) ==
    IF is_traceroute(packet)
    THEN [st |-> st,
          out |-> IF packet.dst_addr \in DOMAIN st.forwarding_table
                  THEN <<Send(st.forwarding_table[packet.dst_addr][1], packet)>>
                  ELSE <<>>]
    ELSE LET m == json_loads(packet.content)
         IN IF ~m.ok THEN [st |-> st, out |-> <<>>]
            ELSE IF m.origin \notin DOMAIN st.lsdb \/ m.seq > st.lsdb[m.origin][1]
            THEN IF ~is_dict(m.links)
                 THEN Raise(st, <<>>, "AttributeError")
                 ELSE LET s1 == [st EXCEPT !.lsdb =
                                     MapPut(st.lsdb, m.origin, <<m.seq, m.links>>)]
                      IN With(run_dijkstra(s1), LAMBDA s2 :
                             [st |-> s2,
                              out |-> Flood(s2, NoPort, <<m.origin, m.seq, m.links>>)])
            ELSE [st |-> st, out |-> <<>>]

\* Mutant: an LSP whose seq equals the stored one is accepted again (>= for >).
handle_packet_accepts_equal_seq(st, port, packet) ==
    IF is_traceroute(packet)
    THEN [st |-> st,
          out |-> IF packet.dst_addr \in DOMAIN st.forwarding_table
                  THEN <<Send(st.forwarding_table[packet.dst_addr][1], packet)>>
                  ELSE <<>>]
    ELSE LET m == json_loads(packet.content)
         IN IF ~m.ok THEN [st |-> st, out |-> <<>>]
            ELSE IF m.origin \notin DOMAIN st.lsdb \/ m.seq >= st.lsdb[m.origin][1]
            THEN IF ~is_dict(m.links)
                 THEN Raise(st, <<>>, "AttributeError")   \* links.copy()
                 ELSE LET s1 == [st EXCEPT !.lsdb =
                                     MapPut(st.lsdb, m.origin, <<m.seq, m.links>>)]
                      IN With(run_dijkstra(s1), LAMBDA s2 :
                             [st |-> s2,
                              out |-> Flood(s2, port, <<m.origin, m.seq, m.links>>)])
            ELSE [st |-> st, out |-> <<>>]

LS_handle_packet(st, port, packet) ==
    IF is_traceroute(packet)
    THEN [st |-> st,
          out |-> IF packet.dst_addr \in DOMAIN st.forwarding_table
                  THEN <<Send(st.forwarding_table[packet.dst_addr][1], packet)>>
                  ELSE <<>>]
    ELSE LET m == json_loads(packet.content)
         IN IF ~m.ok THEN [st |-> st, out |-> <<>>]
            ELSE IF m.origin \notin DOMAIN st.lsdb \/ m.seq > st.lsdb[m.origin][1]
            THEN IF ~is_dict(m.links)
                 THEN Raise(st, <<>>, "AttributeError")   \* links.copy()
                 ELSE LET s1 == [st EXCEPT !.lsdb =
                                     MapPut(st.lsdb, m.origin, <<m.seq, m.links>>)]
                      IN With(run_dijkstra(s1), LAMBDA s2 :
                             [st |-> s2,
                              out |-> Flood(s2, port, <<m.origin, m.seq, m.links>>)])
            ELSE [st |-> st, out |-> <<>>]

(***************************************************************************)
(* One router driven by arbitrary events                                   *)
(***************************************************************************)
Costs == 0..MaxCost

\* the vectors that arrive in Routing packets at the DV router
Vectors ==
    {EmptyMap,
     (2 :> 0) @@ (3 :> 1),
     (1 :> 1) @@ (2 :> 1) @@ (3 :> 0)}

\* the links maps that arrive in LSPs at the LS router
LinkMaps ==
    {(1 :> 1) @@ (3 :> 1),
     (1 :> 2) @@ (2 :> 0)}

Contents ==
    {json_dumps(<<o, s, l>>) : o \in Addrs, s \in 1..MaxSeq, l \in LinkMaps}
        \cup {[tag |-> "garbage"]}

\* contents of Routing packets that are no vector (DV) and no
\* (origin, seq, links) triple with a links map (LS): a text, a JSON array of
\* two elements, a triple whose third element is a number
BadVectors == {NoDict}
BadLSPs ==
    {[tag |-> "garbage"], json_dumps(<<2, 1>>)}
        \cup {json_dumps(<<o, s, NoDict>>) : o \in Addrs \ {Self}, s \in 1..MaxSeq}

R == rt[Self]

handle_new_link(st, port, endpoint, cost) ==
    IF proto = "DV" THEN DV_handle_new_link(st, port, endpoint, cost)
    ELSE LS_handle_new_link(st, port, endpoint, cost)

handle_remove_link(st, port) ==
    IF proto = "DV" THEN DV_handle_remove_link(st, port)
    ELSE LS_handle_remove_link(st, port)

handle_time(st, time_ms) ==
    IF proto = "DV" THEN DV_handle_time(st, time_ms)
    ELSE LS_handle_time(st, time_ms)

handle_packet(st, port, packet) ==
    IF proto = "DV" THEN DV_handle_packet(st, port, packet)
    ELSE LS_handle_packet(st, port, packet)

Handled(op, res) ==
    /\ ev.n < MaxEvents
    /\ rt' = [rt EXCEPT ![Self] = res.st]
    /\ out' = res.out
    /\ ev' = [n |-> ev.n + 1, op |-> op]
    /\ UNCHANGED <<proto, chan>>

Ran(op, res) ==
    /\ Handled(op, res)
    /\ UNCHANGED env

\* What the LS router has been sent so far, kept in env: for every originator
\* but the router itself the greatest seq of the LSPs received and the links
\* of the first LSP that carried it.
Received(seen, content) ==
    LET m == json_loads(content)
    IN IF ~m.ok \/ m.origin = Self THEN seen
       ELSE IF m.origin \notin DOMAIN seen \/ m.seq > seen[m.origin][1]
       THEN MapPut(seen, m.origin, <<m.seq, m.links>>)
       ELSE seen

Init ==
    /\ proto \in {"DV", "LS"}
    /\ rt = [r \in {Self} |->
                IF proto = "DV" THEN DV_init(Self, HeartbeatTime)
                ELSE LS_init(Self, HeartbeatTime)]
    /\ out = <<>>
    /\ ev = [n |-> 0, op |-> "init"]
    /\ chan = EmptyMap
    /\ env = EmptyMap

NewLink ==
    \E port \in Ports, endpoint \in Addrs, cost \in Costs :
        Ran("new_link", handle_new_link(R, port, endpoint, cost))

RemoveLink ==
    \E port \in Ports :
        Ran("remove_link", handle_remove_link(R, port))

Tick ==
    \E time_ms \in 0..MaxTime :
        /\ time_ms >= R.last_time
        /\ Ran("time", handle_time(R, time_ms))

RecvData ==
    \E port \in Ports \cup {NoPort}, dst \in Addrs :
        LET packet == Packet(TRACEROUTE, 2, dst, "payload")
        IN Ran("data", handle_packet(R, port, packet))

RecvVector ==
    /\ proto = "DV"
    /\ \E port \in Ports \cup {NoPort}, src \in Addrs, v \in Vectors :
        LET packet == Packet(ROUTING, src, Self, v)
        IN Ran("routing", handle_packet(R, port, packet))

RecvLSP ==
    /\ proto = "LS"
    /\ \E port \in Ports \cup {NoPort}, c \in Contents :
        LET packet == Packet(ROUTING, 2, Self, c)
        IN /\ Handled("routing", handle_packet(R, port, packet))
           /\ env' = Received(env, c)

\* a Routing packet with a malformed content; the event is "dropped" when the
\* handler returns and "raised" when an exception leaves it
RecvBad ==
    \E port \in Ports \cup {NoPort}, src \in Addrs \ {Self},
       c \in IF proto = "DV" THEN BadVectors ELSE BadLSPs :
        LET res == handle_packet(R, port, Packet(ROUTING, src, Self, c))
        IN Ran(IF Raised(res) THEN "raised" ELSE "dropped", res)

Next ==
    \/ NewLink
    \/ RemoveLink
    \/ Tick
    \/ RecvData
    \/ RecvVector
    \/ RecvLSP
    \/ RecvBad

Spec == Init /\ [][Next]_vars

(***************************************************************************)
(* Claims about one router                                                 *)
(***************************************************************************)
IsDV == proto = "DV"

IsLS == proto = "LS"

\* the port a forwarding entry names: DV stores the port, LS (port, cost)
EntryPort(e) == IF IsDV THEN e ELSE e[1]

RoutingSends == {i \in 1..Len(out) : out[i].pkt.kind = ROUTING}

Min(S) == CHOOSE m \in S : \A n \in S : m <= n

\* C1: every port stored in the forwarding table of a DV or LS router is a
\* current key of its neighbors map, whatever events came before.
C1_PortsAreNeighbors ==
    \A d \in DOMAIN R.forwarding_table :
        EntryPort(R.forwarding_table[d]) \in Keys(R.neighbors)

\* C1 witness: a DV route to d still stored on a port that on_new_link has
\* since handed to another endpoint (no vector could have put it there).
C1_Witness ==
    /\ IsDV
    /\ \A i \in 1..Len(R.dv_from_neighbors) : R.dv_from_neighbors[i][2] = EmptyMap
    /\ \E d \in DOMAIN R.forwarding_table :
           /\ d # Self
           /\ Get(R.neighbors, R.forwarding_table[d])[1] # d
           /\ Len(R.neighbors) = 1

\* C2: a DV router's dv maps its own address to 0, and every Routing packet
\* it sends carries a vector with the entry (own address, 0).
C2_SelfIsZero ==
    IsDV =>
        /\ Self \in DOMAIN R.dv
        /\ R.dv[Self] = 0
        /\ \A i \in RoutingSends :
               /\ Self \in DOMAIN out[i].pkt.content
               /\ out[i].pkt.content[Self] = 0

\* C2 witness: the router has advertised while a port led to its own address
\* and a stored neighbor vector listed its own address.
C2_Witness ==
    /\ IsDV
    /\ RoutingSends # {}
    /\ \E i \in 1..Len(R.neighbors) : R.neighbors[i][2][1] = Self
    /\ \E i \in 1..Len(R.dv_from_neighbors) : Self \in DOMAIN R.dv_from_neighbors[i][2]

\* The terms the distance to x is the minimum of: 0 for the router itself, the
\* cost of every up link to x, and link cost + advertised cost over every up
\* link to a neighbor whose stored vector lists x.
DistanceTerms(st, x) ==
    (IF x = st.addr THEN {0} ELSE {})
    \cup {st.neighbors[i][2][2] : i \in {j \in 1..Len(st.neighbors) : st.neighbors[j][2][1] = x}}
    \cup {st.neighbors[i][2][2] + Get(st.dv_from_neighbors, st.neighbors[i][2][1])[x] :
            i \in {j \in 1..Len(st.neighbors) :
                      /\ Has(st.dv_from_neighbors, st.neighbors[j][2][1])
                      /\ x \in DOMAIN Get(st.dv_from_neighbors, st.neighbors[j][2][1])}}

\* C3: after every handler of a DV router, dv[x] is the minimum of the
\* distance terms of x, and x is absent from dv exactly when it has none.
C3_DvIsMinimum ==
    IsDV =>
        \A x \in Addrs :
            /\ x \in DOMAIN R.dv <=> DistanceTerms(R, x) # {}
            /\ x \in DOMAIN R.dv => R.dv[x] = Min(DistanceTerms(R, x))

\* C4: the sequence number stored in an LS router's own lsdb entry never
\* decreases from one state to the next.
C4_OwnSeqNeverDecreases ==
    [][(IsLS /\ Self \in DOMAIN rt[Self].lsdb /\ Self \in DOMAIN rt'[Self].lsdb)
          => rt'[Self].lsdb[Self][1] >= rt[Self].lsdb[Self][1]]_vars

WellFormed == Contents \ {[tag |-> "garbage"]}

\* C9: delivering a well-formed Routing packet to an LS router twice in a row,
\* on the same or on different ports, leaves the state the first delivery
\* left, and the second delivery sends nothing.
C9_LSIdempotent ==
    IsLS =>
        \A c \in WellFormed, p1 \in Ports \cup {NoPort}, p2 \in Ports \cup {NoPort} :
            LET packet == Packet(ROUTING, 2, Self, c)
                first  == LS_handle_packet(R, p1, packet)
                second == LS_handle_packet(first.st, p2, packet)
            IN second.st = first.st /\ second.out = <<>>

\* C9 witness: the last event delivered an LSP of another origin that the
\* router installed and flooded.
C9_Witness ==
    /\ IsLS
    /\ ev.op = "routing"
    /\ out # <<>>
    /\ \E o \in DOMAIN R.lsdb : o # Self /\ out[1].pkt.content = json_dumps(<<o, R.lsdb[o][1], R.lsdb[o][2]>>)

\* C10: delivering the same vector from the same neighbor to a DV router
\* twice in a row: the second delivery changes no state and sends nothing.
C10_DVIdempotent ==
    IsDV =>
        \A n \in Addrs, v \in Vectors, port \in Ports \cup {NoPort} :
            LET packet == Packet(ROUTING, n, Self, v)
                first  == DV_handle_packet(R, port, packet)
                second == DV_handle_packet(first.st, port, packet)
            IN second.st = first.st /\ second.out = <<>>

\* C10 witness: the last event delivered a vector that the router stored,
\* recomputed from and advertised.
C10_Witness ==
    /\ IsDV
    /\ ev.op = "routing"
    /\ out # <<>>
    /\ \E i \in 1..Len(R.dv_from_neighbors) : R.dv_from_neighbors[i][2] # EmptyMap

(***************************************************************************)
(* A network of routers                                                    *)
(*                                                                         *)
(* The simulator joins routers a and b by one link; each end uses the      *)
(* other router's address as its port number. cost[l] is the simulator's   *)
(* state of link l (0: down). A router learns of a change only when its    *)
(* own handle_new_link / handle_remove_link runs (EndSync), so the two     *)
(* ends of a link are told at different times. A packet sent on a port     *)
(* travels on the FIFO chan[<<sender, receiver>>] when the link is up and  *)
(* is lost otherwise; taking a link down loses what it carries.            *)
(***************************************************************************)
Routers == {1, 2, 3}

Links == {<<1, 2>>, <<1, 3>>, <<2, 3>>}

LinkOf(a, b) == IF a < b THEN <<a, b>> ELSE <<b, a>>

Ends == {<<a, b>> \in Routers \X Routers : a # b}

Down == [l \in Links |-> 0]

EmptyChan == [e \in Ends |-> <<>>]

NetState(r, ch, c) == [rt |-> r, chan |-> ch, cost |-> c]

\* The packets router a sent in one handler, put on their links. A handler
\* sends at most once on each port.
Transmit(ch, c, a, sends) ==
    [e \in Ends |->
        IF e[1] = a /\ c[LinkOf(e[1], e[2])] > 0
              /\ \E i \in 1..Len(sends) : sends[i].port = e[2]
        THEN Append(ch[e], sends[CHOOSE i \in 1..Len(sends) : sends[i].port = e[2]].pkt)
        ELSE ch[e]]

AfterHandler(ns, a, res) ==
    NetState([ns.rt EXCEPT ![a] = res.st], Transmit(ns.chan, ns.cost, a, res.out), ns.cost)

\* router a has been told the present state of its link to b
Synced(ns, a, b) ==
    IF ns.cost[LinkOf(a, b)] = 0 THEN ~Has(ns.rt[a].neighbors, b)
    ELSE Has(ns.rt[a].neighbors, b)
         /\ Get(ns.rt[a].neighbors, b) = <<b, ns.cost[LinkOf(a, b)]>>

\* router a is told: handle_new_link for a link that came up, handle_remove_link
\* for one that went down
NetSync(ns, a, b) ==
    With(IF ns.cost[LinkOf(a, b)] > 0
         THEN handle_new_link(ns.rt[a], b, b, ns.cost[LinkOf(a, b)])
         ELSE handle_remove_link(ns.rt[a], b),
         LAMBDA res : AfterHandler(ns, a, res))

\* the oldest packet on the link from a arrives at b, on b's port a
NetDeliver(ns, a, b) ==
    With(handle_packet(ns.rt[b], a, Head(ns.chan[<<a, b>>])),
         LAMBDA res : AfterHandler([ns EXCEPT !.chan[<<a, b>>] = Tail(ns.chan[<<a, b>>])],
                                   b, res))

\* one heartbeat period has passed at router r when handle_time runs
NetBeat(ns, r) ==
    With(handle_time(ns.rt[r], ns.rt[r].last_time + ns.rt[r].heartbeat_time),
         LAMBDA res : AfterHandler(ns, r, res))

\* the simulator changes link l to cost c (0 takes it down)
NetChange(ns, l, c) ==
    NetState(ns.rt,
             [e \in Ends |-> IF c = 0 /\ LinkOf(e[1], e[2]) = l THEN <<>> ELSE ns.chan[e]],
             [ns.cost EXCEPT ![l] = c])

Constructed ==
    [r \in Routers |->
        IF proto = "DV" THEN DV_init(r, HeartbeatTime) ELSE LS_init(r, HeartbeatTime)]

Quiet(ns) == \A e \in Ends : ns.chan[e] = <<>>

(***************************************************************************)
(* The network as a state machine. env holds the simulator's link costs    *)
(* (cost), the number of link changes it may still make (changes), the     *)
(* heartbeats each router has had (beats), a count of LSP installs         *)
(* (installs, see SpecLSFlood) and the scheduling of the run:              *)
(* a run first brings the links of env.cost up and lets the network come   *)
(* to rest, one event at a time in a fixed order (env.free = FALSE); then  *)
(* the simulator puts the links of env.goal in place and the events of the *)
(* routers interleave freely (env.free = TRUE).                            *)
(***************************************************************************)
NS == NetState(rt, chan, env.cost)

AllSynced == \A e \in Ends : Synced(NS, e[1], e[2])

Before(e, f) == e[1] < f[1] \/ (e[1] = f[1] /\ e[2] <= f[2])

\* the one end to be told next / the one link to deliver next, while the
\* network is brought to rest
FirstUnsynced(e) ==
    /\ Quiet(NS)
    /\ \A f \in Ends : ~Synced(NS, f[1], f[2]) => Before(e, f)

FirstInFlight(e) == \A f \in Ends : chan[f] # <<>> => Before(e, f)

FirstToBeat(r) == \A q \in Routers : env.beats[q] < MaxBeats => r <= q

NetStep(next) ==
    \E ns \in {next} :
        /\ rt' = ns.rt
        /\ chan' = ns.chan
        /\ UNCHANGED <<proto, out, ev>>

NetInit(p, c, goal, changes) ==
    /\ proto = p
    /\ rt = Constructed
    /\ chan = EmptyChan
    /\ env = [cost |-> c, goal |-> goal, free |-> FALSE, changes |-> changes,
              beats |-> [r \in Routers |-> 0], installs |-> EmptyMap]
    /\ out = <<>>
    /\ ev = [n |-> 0, op |-> "init"]

\* a router is told of a change of one of its links
EndSync ==
    \E e \in Ends :
        /\ ~Synced(NS, e[1], e[2])
        /\ env.free \/ FirstUnsynced(e)
        /\ NetStep(NetSync(NS, e[1], e[2]))
        /\ UNCHANGED env

\* a packet arrives
Deliver ==
    \E e \in Ends :
        /\ chan[e] # <<>>
        /\ env.free \/ FirstInFlight(e)
        /\ NetStep(NetDeliver(NS, e[1], e[2]))
        /\ UNCHANGED env

\* Heartbeats go on for ever in the simulator, a heartbeat period being long
\* against the delivery of a packet. The model gives each router MaxBeats of
\* them in each part of a run, each at a time when the simulator's last link
\* change has been told to both ends and no packet is in flight.
Heartbeat ==
    \E r \in Routers :
        /\ env.beats[r] < MaxBeats
        /\ AllSynced /\ Quiet(NS)
        /\ IF env.free THEN env.changes = 0 ELSE FirstToBeat(r)
        /\ NetStep(NetBeat(NS, r))
        /\ env' = [env EXCEPT !.beats[r] = @ + 1]

\* The network has come to rest: the simulator puts the links of env.goal in
\* place.
AtRest ==
    /\ AllSynced
    /\ Quiet(NS)
    /\ \A r \in Routers : env.beats[r] = MaxBeats

Go ==
    /\ ~env.free
    /\ AtRest
    /\ env' = [env EXCEPT !.free = TRUE, !.cost = env.goal,
                          !.beats = [r \in Routers |-> 0]]
    /\ UNCHANGED <<proto, rt, out, ev, chan>>

(***************************************************************************)
(* DV routers on a static connected topology: the initial on_new_link      *)
(* calls, the advertisements and the heartbeats in any interleaving        *)
(***************************************************************************)
\* l12, l13, l23 -> the cost function of a topology
Topology(c12, c13, c23) ==
    [l \in Links |-> IF l = <<1, 2>> THEN c12 ELSE IF l = <<1, 3>> THEN c13 ELSE c23]

\* <<links already up and at rest, links of the static topology>>: the three
\* lines brought up from nothing, and the triangle A-B = 10, A-C = 5, B-C = 1
\* completed from each of its lines.
BuildCases ==
    {<<Down, Topology(1, 0, 1)>>, <<Down, Topology(1, 2, 0)>>, <<Down, Topology(0, 1, 2)>>,
     <<Topology(10, 0, 1), Topology(10, 5, 1)>>,
     <<Topology(0, 5, 1), Topology(10, 5, 1)>>,
     <<Topology(10, 5, 0), Topology(10, 5, 1)>>}

InitDVBuild == \E b \in BuildCases : NetInit("DV", b[1], b[2], 0)

NextDVBuild ==
    \/ Go
    \/ EndSync
    \/ Deliver
    \/ Heartbeat

SpecDVBuild == InitDVBuild /\ [][NextDVBuild]_vars /\ WF_vars(NextDVBuild)

\* Minimum path costs over the up links of c, by |Routers| rounds of relaxation;
\* Unreachable where there is no path.
Unreachable == 0 - 1

Shorter(x, y) == IF x = Unreachable THEN y ELSE IF y = Unreachable THEN x ELSE IF x <= y THEN x ELSE y

Plus(x, y) == IF x = Unreachable \/ y = Unreachable THEN Unreachable ELSE x + y

Hop(c, a, b) == IF a = b THEN 0 ELSE IF c[LinkOf(a, b)] > 0 THEN c[LinkOf(a, b)] ELSE Unreachable

RECURSIVE BestVia(_, _, _, _, _)
BestVia(c, d, a, b, via) ==
    IF via = {} THEN d[a][b]
    ELSE LET n == CHOOSE n \in via : TRUE
         IN Shorter(Plus(Hop(c, a, n), d[n][b]), BestVia(c, d, a, b, via \ {n}))

RECURSIVE Relaxed(_, _, _)
Relaxed(c, d, rounds) ==
    IF rounds = 0 THEN d
    ELSE With([a \in Routers |-> [b \in Routers |-> BestVia(c, d, a, b, Routers \ {a})]],
              LAMBDA next : Relaxed(c, next, rounds - 1))

Dist(c) == Relaxed(c, [a \in Routers |-> [b \in Routers |-> Hop(c, a, b)]], Cardinality(Routers))

\* router r routes to d over a first hop of a minimum-cost path (costs dist),
\* at that cost
DVRouteIsShortest(c, dist, r, d) ==
    /\ d \in DOMAIN rt[r].dv
    /\ rt[r].dv[d] = dist[r][d]
    /\ d \in DOMAIN rt[r].forwarding_table
    /\ LET n == rt[r].forwarding_table[d]
       IN /\ Has(rt[r].neighbors, n)
          /\ Hop(c, r, n) # Unreachable
          /\ Plus(Hop(c, r, n), dist[n][d]) = dist[r][d]

DVShortestPaths ==
    \A dist \in {Dist(env.cost)} :
        \A r \in Routers, d \in Routers :
            r # d => DVRouteIsShortest(env.cost, dist, r, d)

\* C7: on a static connected network of DV routers, under any interleaving of
\* the initial on_new_link calls and the advertisements, with heartbeats, every
\* router ends with minimum-cost dv entries and first-hop ports, for good.
C7_DVConverges == <>[]DVShortestPaths

\* C7 witness: the triangle has converged, router 1 reaching 2 through 3 at
\* cost 6 and 3 directly at cost 5, after an advertisement had reached router
\* 1 before its own on_new_link for that link (its stored vector was reset).
C7_Witness ==
    /\ env.free
    /\ env.cost = Topology(10, 5, 1)
    /\ AtRest
    /\ rt[1].dv = (1 :> 0) @@ (2 :> 6) @@ (3 :> 5)
    /\ rt[1].forwarding_table = (2 :> 3) @@ (3 :> 3)

(***************************************************************************)
(* DV routers at rest on a topology of which the simulator then takes one  *)
(* link down                                                               *)
(***************************************************************************)
\* Two lines, and two triangles in which one router reaches another through
\* the third.
StartTopologies ==
    {Topology(1, 0, 1), Topology(2, 1, 0), Topology(1, 5, 1), Topology(4, 1, 1)}

InitDVRemove == \E c \in StartTopologies : NetInit("DV", c, c, 1)

\* the simulator takes a link down; its two routers are told later (EndSync)
LinkDown ==
    \E l \in Links :
        /\ env.free
        /\ env.changes > 0
        /\ env.cost[l] > 0
        /\ AllSynced
        /\ \E ns \in {NetChange(NS, l, 0)} :
               /\ chan' = ns.chan
               /\ env' = [env EXCEPT !.cost = ns.cost, !.changes = @ - 1]
        /\ UNCHANGED <<proto, rt, out, ev>>

\* Python's integers do not overflow: the costs of a DV router can grow for
\* ever. The model follows a run until a cost has passed MaxDist.
BelowMaxDist == \A r \in Routers : \A d \in DOMAIN rt[r].dv : rt[r].dv[d] <= MaxDist

DeliverBelowMaxDist == BelowMaxDist /\ Deliver

NextDVRemove ==
    \/ Go
    \/ LinkDown
    \/ EndSync
    \/ DeliverBelowMaxDist
    \/ Heartbeat

SpecDVRemove == InitDVRemove /\ [][NextDVRemove]_vars /\ WF_vars(NextDVRemove)

Connected(c) == \A a \in Routers, b \in Routers : Dist(c)[a][b] # Unreachable

\* no advertisement that is next to arrive changes its receiver's dv or
\* forwarding table
NoAdvertisementChangesRoutes ==
    \A e \in Ends :
        chan[e] # <<>> =>
            \A res \in {handle_packet(rt[e[2]], e[1], Head(chan[e]))} :
                /\ res.st.dv = rt[e[2]].dv
                /\ res.st.forwarding_table = rt[e[2]].forwarding_table

LSStartTopologies == {Topology(1, 0, 1), Topology(1, 3, 1)}

\* the costs at which the simulator adds a link
AddCosts == {1}

InitLSChange == \E c \in LSStartTopologies : NetInit("LS", c, c, MaxChanges)

\* The simulator takes a link down or brings one up, once every router has
\* been told of the change before; the two routers of the link are told later
\* (EndSync).
LinkChange ==
    \E l \in Links, c \in AddCosts \cup {0} :
        /\ env.free
        /\ env.changes > 0
        /\ AllSynced
        /\ (env.cost[l] = 0) # (c = 0)
        /\ \E ns \in {NetChange(NS, l, c)} :
               /\ chan' = ns.chan
               /\ env' = [env EXCEPT !.cost = ns.cost, !.changes = @ - 1]
        /\ UNCHANGED <<proto, rt, out, ev>>

\* the simulator makes no further change
LastChange ==
    /\ env.free
    /\ env.changes > 0
    /\ env' = [env EXCEPT !.changes = 0]
    /\ UNCHANGED <<proto, rt, out, ev, chan>>

NextLSChange ==
    \/ Go
    \/ LinkChange
    \/ LastChange
    \/ EndSync
    \/ Deliver
    \/ Heartbeat

SpecLSChange == InitLSChange /\ [][NextLSChange]_vars /\ WF_vars(NextLSChange)

\* router r forwards to d on a port whose neighbor is the first hop of a
\* minimum-cost path (costs dist), and stores that cost
LSRouteIsShortest(c, dist, r, d) ==
    /\ d \in DOMAIN rt[r].forwarding_table
    /\ LET port == rt[r].forwarding_table[d][1]
           cost == rt[r].forwarding_table[d][2]
       IN /\ cost = dist[r][d]
          /\ Has(rt[r].neighbors, port)
          /\ LET n == Get(rt[r].neighbors, port)[1]
             IN /\ Hop(c, r, n) # Unreachable
                /\ Plus(Hop(c, r, n), dist[n][d]) = dist[r][d]

LSShortestPaths ==
    \A dist \in {Dist(env.cost)} :
        \A r \in Routers, d \in Routers :
            r # d => LSRouteIsShortest(env.cost, dist, r, d)

\* C6: after the simulator's last link change, if the topology is connected,
\* with heartbeats continuing every LS router comes to forward to every other
\* router on a first hop of a minimum-cost path, at that cost, for good.
C6_LSConverges == <>[](Connected(env.cost) => LSShortestPaths)

\* C6 witness: in the triangle in which A reached C through B, the link A-C
\* was removed and added again at cost 1; the network has come to rest and A
\* forwards to C on its port to C at cost 1.
C6_Witness ==
    /\ env.free
    /\ env.changes = 0
    /\ env.cost = Topology(1, 1, 1)
    /\ AtRest
    /\ rt[1].seq_num = 4 + 2 * MaxBeats
    /\ rt[1].forwarding_table = (2 :> <<2, 1>>) @@ (3 :> <<3, 1>>)

(***************************************************************************)
(* LS routers at rest on a connected topology, into which one LSP at a     *)
(* time is injected: a router's heartbeat originates it, when no packet is *)
(* in flight. env.installs counts, for <<r, o, s>>, the deliveries of the  *)
(* LSP of origin o and sequence number s on which router r did anything    *)
(* (its own origination, for r = o).                                       *)
(***************************************************************************)
\* the three lines and two triangles
FloodTopologies ==
    {Topology(1, 0, 1), Topology(1, 2, 0), Topology(0, 2, 1),
     Topology(1, 1, 1), Topology(1, 3, 1)}

\* (with one change left, which is never made, Heartbeat runs only while the
\* network is brought to rest)
InitLSFlood == \E c \in FloodTopologies : NetInit("LS", c, c, 1)

Installed(k) == IF k \in DOMAIN env.installs THEN env.installs[k] ELSE 0

\* the heartbeat of router o originates its next LSP
Inject ==
    \E o \in Routers :
        /\ env.free
        /\ env.beats[o] < MaxBeats
        /\ Quiet(NS)
        /\ \E ns \in {NetBeat(NS, o)} :
               /\ NetStep(ns)
               /\ env' = [env EXCEPT !.beats[o] = @ + 1,
                                     !.installs = MapPut(@, <<o, o, ns.rt[o].seq_num>>, 1)]

\* a packet arrives; an injected LSP on which the router does anything is counted
DeliverCounted ==
    \E e \in Ends :
        /\ chan[e] # <<>>
        /\ env.free \/ FirstInFlight(e)
        /\ \E ns \in {NetDeliver(NS, e[1], e[2])}, m \in {json_loads(Head(chan[e]).content)} :
               /\ NetStep(ns)
               /\ env' = IF /\ m.ok
                            /\ <<m.origin, m.origin, m.seq>> \in DOMAIN env.installs
                            /\ \/ ns.rt[e[2]] # rt[e[2]]
                               \/ ns.chan # [chan EXCEPT ![e] = Tail(@)]
                         THEN [env EXCEPT !.installs =
                                  MapPut(@, <<e[2], m.origin, m.seq>>,
                                         Installed(<<e[2], m.origin, m.seq>>) + 1)]
                         ELSE env

NextLSFlood ==
    \/ Go
    \/ EndSync
    \/ Heartbeat
    \/ Inject
    \/ DeliverCounted

SpecLSFlood == InitLSFlood /\ [][NextLSFlood]_vars /\ WF_vars(NextLSFlood)

\* the LSPs injected so far
Injected == {<<k[2], k[3]>> : k \in DOMAIN env.installs}

NoSecondInstall == \A k \in DOMAIN env.installs : env.installs[k] <= 1

FloodOver ==
    /\ Quiet(NS)
    /\ \A lsp \in Injected : \A r \in Routers : Installed(<<r, lsp[1], lsp[2]>>) = 1

\* C5: no router installs an injected LSP a second time, and its flood ends:
\* no packet is in flight any more and every router has installed it once.
C5_FloodingTerminates == []NoSecondInstall /\ <>[]FloodOver

\* C5 witness: in the triangle, where every LSP reaches every router over two
\* paths, each router has originated an LSP and all three floods are over.
C5_Witness ==
    /\ env.free
    /\ env.cost = Topology(1, 1, 1)
    /\ \A r \in Routers : env.beats[r] = MaxBeats
    /\ Cardinality(Injected) = MaxBeats * Cardinality(Routers)
    /\ FloodOver

(***************************************************************************)
(* More claims about one router (specification Spec)                       *)
(***************************************************************************)
DataPacket(dst) == Packet(TRACEROUTE, 2, dst, "payload")

\* C11: a Data packet received on any port by a DV or an LS router is sent
\* once, unchanged, on the port the forwarding table maps its destination to;
\* without an entry (as for the router's own address) nothing is sent; the
\* router's state does not change.
C11_DataIsForwarded ==
    \A port \in Ports \cup {NoPort}, dst \in Addrs :
        LET res == handle_packet(R, port, DataPacket(dst))
        IN /\ res.st = R
           /\ dst \in DOMAIN R.forwarding_table =>
                  res.out = <<Send(EntryPort(R.forwarding_table[dst]), DataPacket(dst))>>
           /\ dst \notin DOMAIN R.forwarding_table => res.out = <<>>
           /\ dst = Self => res.out = <<>>

\* C11 witness: the last event was a Data packet that the router sent on,
\* while it had destinations with and without a route.
C11_Witness ==
    /\ ev.op = "data"
    /\ Len(out) = 1
    /\ out[1].pkt = DataPacket(out[1].pkt.dst_addr)
    /\ \E d \in Addrs \ {Self} : d \notin DOMAIN R.forwarding_table

\* C13: a DV router that receives a Routing packet whose content is no
\* address-to-cost mapping returns normally from the handler, without an
\* exception, leaves its whole state as it was and sends nothing.
C13_BadVectorIsDropped ==
    [][(IsDV /\ ev'.op \in {"dropped", "raised"}) =>
           (ev'.op = "dropped" /\ rt' = rt /\ out' = <<>>)]_vars

\* C14: an LS router that receives a Routing packet whose content is no
\* (origin, seq, links map) triple returns normally from the handler, without
\* an exception, leaves its whole state as it was and sends nothing.
C14_BadLSPIsDropped ==
    [][(IsLS /\ ev'.op \in {"dropped", "raised"}) =>
           (ev'.op = "dropped" /\ rt' = rt /\ out' = <<>>)]_vars

\* C15: whenever the LS router has an lsdb entry for itself, its links are the
\* neighbor-to-cost map of the current neighbors and its seq is the router's
\* own sequence number, whatever packets were received.
C15_OwnEntryIsCurrent ==
    (IsLS /\ Self \in DOMAIN R.lsdb) =>
        R.lsdb[Self] = <<R.seq_num, LinksOf(R.neighbors)>>

C17_AcceptedLSPIsFlooded ==
    IsLS =>
        \A p \in Ports \cup {NoPort}, c \in WellFormed :
            LET m   == json_loads(c)
                res == LS_handle_packet(R, p, Packet(ROUTING, 2, Self, c))
                db  == MapPut(R.lsdb, m.origin, <<m.seq, m.links>>)
            IN (m.origin \notin DOMAIN R.lsdb \/ m.seq > R.lsdb[m.origin][1]) =>
                  /\ \A q \in Keys(R.neighbors) :
                        Cardinality({i \in DOMAIN res.out : res.out[i].port = q})
                            = IF q = p THEN 0 ELSE 1
                  /\ \A i \in DOMAIN res.out :
                        /\ res.out[i].port \in Keys(R.neighbors)
                        /\ res.out[i].pkt =
                              Packet(ROUTING, R.addr,
                                     Get(R.neighbors, res.out[i].port)[1], c)
                  /\ res.st.lsdb = db
                  /\ res.st.forwarding_table =
                        run_dijkstra([R EXCEPT !.lsdb = db]).forwarding_table

\* C17 witness: the router has two neighbor ports and has just sent an LSP on
\* exactly one of them: it accepted the LSP on the other.
C17_Witness ==
    /\ IsLS
    /\ ev.op = "routing"
    /\ Len(R.neighbors) = 2
    /\ Len(out) = 1
    /\ out[1].pkt.kind = ROUTING

\* C18: the DV router keeps the vector stored for a neighbor: on_new_link to
\* an endpoint that has a stored vector leaves that vector as it is and stores
\* an empty one only for a new endpoint, and on_remove_link of one port leaves
\* the vector of a neighbor that another port still leads to.
C18_VectorsAreKept ==
    IsDV =>
        /\ \A port \in Ports, endpoint \in Addrs, cost \in Costs :
              LET after == DV_handle_new_link(R, port, endpoint, cost).st
              IN /\ Has(after.dv_from_neighbors, endpoint)
                 /\ ~Has(R.dv_from_neighbors, endpoint) =>
                        Get(after.dv_from_neighbors, endpoint) = EmptyMap
                 /\ (/\ Has(R.dv_from_neighbors, endpoint)
                     /\ \E q \in Keys(R.neighbors) : Get(R.neighbors, q)[1] = endpoint)
                        => Get(after.dv_from_neighbors, endpoint) =
                               Get(R.dv_from_neighbors, endpoint)
        /\ \A port \in Keys(R.neighbors) :
              LET n     == Get(R.neighbors, port)[1]
                  after == DV_handle_remove_link(R, port).st
              IN (/\ Has(R.dv_from_neighbors, n)
                  /\ \E q \in Keys(R.neighbors) \ {port} : Get(R.neighbors, q)[1] = n)
                     => /\ Has(after.dv_from_neighbors, n)
                        /\ Get(after.dv_from_neighbors, n) = Get(R.dv_from_neighbors, n)

\* C19: in the LS router, a forwarding entry (port, cost) for a destination d
\* that is the neighbor on that very port, neighbors[port] = (d, c), has
\* cost = c, also when several ports of different costs lead to d.
C19_DirectCostIsLinkCost ==
    IsLS =>
        \A d \in DOMAIN R.forwarding_table :
            LET port == R.forwarding_table[d][1]
                cost == R.forwarding_table[d][2]
            IN (Has(R.neighbors, port) /\ Get(R.neighbors, port)[1] = d)
                  => cost = Get(R.neighbors, port)[2]

\* C12: on_remove_link of a port that is no key of neighbors changes nothing
\* and sends nothing, for both routers; a second removal of the same port
\* changes nothing the first one left and sends nothing.
C12_UnknownPortIsIgnored ==
    \A port \in Ports \cup {NoPort} :
        LET first  == handle_remove_link(R, port)
            second == handle_remove_link(first.st, port)
        IN /\ ~Has(R.neighbors, port) => (first.st = R /\ first.out = <<>>)
           /\ second.st = first.st
           /\ second.out = <<>>

\* C12 witness: the last event was a removal that sent nothing although the
\* router has a neighbor: the port removed was not a key of neighbors.
C12_Witness ==
    /\ ev.op = "remove_link"
    /\ out = <<>>
    /\ R.neighbors # <<>>

(***************************************************************************)
(* run_dijkstra on an arbitrary link state database (SpecDijkstra)         *)
(***************************************************************************)
\* every links map over the addresses, the router's own among them, with the
\* costs of the model (zero included)
AnyLinks == UNION {[S -> Costs] : S \in SUBSET Addrs}

\* every lsdb: any set of originators, each with any links map
AnyLsdb == UNION {[O -> {<<1, l>> : l \in AnyLinks}] : O \in SUBSET Addrs}

AnyNeighbors ==
    {<<>>, <<<<1, <<2, 1>>>>>>, <<<<1, <<2, 0>>>>, <<2, <<3, 1>>>>>>}

InitDijkstra ==
    /\ proto = "LS"
    /\ \E db \in AnyLsdb, nbrs \in AnyNeighbors :
          rt = [r \in {Self} |->
                   [LS_init(Self, HeartbeatTime) EXCEPT !.lsdb = db,
                                                        !.neighbors = nbrs]]
    /\ out = <<>>
    /\ ev = [n |-> 0, op |-> "init"]
    /\ chan = EmptyMap
    /\ env = EmptyMap

Recompute ==
    /\ ev.n = 0
    /\ rt' = [rt EXCEPT ![Self] = run_dijkstra(R)]
    /\ ev' = [n |-> 1, op |-> "run_dijkstra"]
    /\ UNCHANGED <<proto, out, chan, env>>

NextDijkstra == Recompute

SpecDijkstra == InitDijkstra /\ [][NextDijkstra]_vars

\* C20: for any lsdb with non-negative costs the search of run_dijkstra ends
\* with an empty queue, and from every destination it found the walk along the
\* predecessors reaches, without a gap and without a cycle, a vertex whose
\* predecessor is the router itself.
C20_NextHopWalkEnds ==
    LET graph == [r \in DOMAIN R.lsdb |-> R.lsdb[r][2]]
        sp    == DijkstraLoop(graph, {<<0, Self>>}, MapPut(EmptyMap, Self, 0),
                              EmptyMap, {})
    IN \A dest \in (DOMAIN sp.dist) \ {Self} :
          LET hop == NextHop(sp.prev, Self, dest, Cardinality(DOMAIN sp.prev))
          IN /\ hop \notin {None, Diverges}
             /\ PrevGet(sp.prev, hop) = Self

\* C20 witness: run_dijkstra has run on an lsdb with a cycle of zero cost
\* between two other routers, one of which lists the router itself as a
\* neighbor, and with an originator that cannot be reached; both routers of
\* the cycle got a route.
C20_Witness ==
    /\ ev.op = "run_dijkstra"
    /\ DOMAIN R.lsdb = Addrs
    /\ R.lsdb[Self][2] = (2 :> 1)
    /\ R.lsdb[2][2] = (1 :> 0) @@ (3 :> 0)
    /\ R.lsdb[3][2] = (2 :> 0)
    /\ DOMAIN R.forwarding_table = {2, 3}

====
